---------------------------- MODULE Spec2Model ----------------------------
(***************************************************************************)
(* Model of the parallel multi-host remote-execution engine of rack_tool   *)
(* (multi_tool.py): RemoteOperation with its retrying connection context   *)
(* manager, the four fan-out handlers and the exit status set by main.     *)
(*                                                                         *)
(* A run is: main dispatches to one handler; the handler submits one       *)
(* RemoteOperation method call per client to a thread pool, collects the   *)
(* futures as they complete, reports, and returns the two counts; main     *)
(* exits with a status.  Every task is a small state machine whose steps   *)
(* are the statements of the method and of _get_connection that talk to    *)
(* the outside (connect, sleep, put/get, exec_command, reading the         *)
(* streams, the log file, close).                                          *)
(*                                                                         *)
(* Hostnames are naturals (their order is the hostname sort order).        *)
(* Exceptions are records [cls, text]: cls tells the except clause that    *)
(* catches it, text is what str(e) gives.  A message built by an f-string  *)
(* "<prefix> ... {e}" is the pair <<prefix, text of e>>.                   *)
(***************************************************************************)
EXTENDS Integers, Sequences, FiniteSets, TLC

\* ---- program constants (multi_tool.py:18-20) ----
MAX_WORKERS == 10
CONNECTION_RETRIES == 3
RETRY_DELAY_SECONDS == 5

\* ---- bounds of the model ----
NumHosts == 2
MaxTargets == 2

Hosts == 1..NumHosts
Actions == {"exec", "scp", "download", "upload-exec"}
\* remote exit statuses a command can end with
ExitStatuses == {0, 1, 2}
\* what a remote command can print: lines of stdout, lines of stderr
OutLines == {<<>>, <<"out">>}
ErrLines == {<<>>, <<"err">>}

\* ---- exceptions ----
NoExc == [cls |-> "none", text |-> <<"none", 0>>]
\* the n-th connect call of an operation fails: generic or authentication
ConnError(n) == [cls |-> "Exception", text |-> <<"connect failed", n>>]
AuthError(n) == [cls |-> "AuthenticationException", text |-> <<"auth failed", n>>]
TransferError == [cls |-> "Exception", text |-> <<"Permission denied", 0>>]
ExecError == [cls |-> "Exception", text |-> <<"exec failed", 0>>]
ReadTimeout == [cls |-> "Exception", text |-> <<"timed out", 0>>]
LogError == [cls |-> "Exception", text |-> <<"log io error", 0>>]
\* contextlib: RuntimeError("generator didn't stop after throw()")
GeneratorDidntStop == [cls |-> "Exception", text |-> <<"generator didn't stop after throw()", 0>>]

NoText == <<"", 0>>
NoResult == [none |-> TRUE]

VARIABLES
    args,      \* the parsed command line: action, json, log_dir, clients
    hpc,       \* where the handler / main is
    submitted, \* number of clients whose task was submitted to the pool
    task,      \* task[i]: the RemoteOperation call submitted for clients[i]
    collected, \* indices of the futures the handler has already taken
    results,   \* the handler's results list
    report,    \* what the handler printed as its report
    counts,    \* (success_count, failure_count) returned by the handler
    status,    \* the process exit status, -1 while the process runs
    cli,       \* main before dispatch: the command line and the files it names
    dl,        \* download_file: hostnames, paths and the local files written
    rc         \* a RemoteClient object and the calls made on it

vars == <<args, hpc, submitted, task, collected, results, report, counts,
          status, cli, dl, rc>>

\* the state outside a handler's run over its clients
others == <<cli, dl, rc>>

N == Len(args.clients)
Tasks == 1..N

\* all sequences over S of length lo..hi
SeqsOf(S, lo, hi) == UNION {[1..n -> S] : n \in lo..hi}


\* ---- one RemoteOperation method call (one task of the pool) ----
\* the method each handler submits, and the tasks' initial state: the method,
\* its log_dir argument (is one given) and the operation's hostname.
\* Besides the locals of the method and of _get_connection a task counts what
\* it did: connects, sleeps, yields, puts, execs, closes; first_ok is the
\* number of the first connect call that succeeded, auth_rejected whether a
\* connect call raised AuthenticationException, thrown / thrown_at the
\* exception the with-body raised and the round it raised it in; live is the
\* set of connections established and not closed, cur the client's current one;
\* open_at_interrupt whether the task had a session when main was interrupted.
MethodOf(action) ==
    CASE action = "exec" -> "execute_command"
      [] action = "scp" -> "transfer_file"
      [] action = "download" -> "download_file"
      [] action = "upload-exec" -> "upload_and_execute"

InitTask(h, method, log_dir) ==
    [pc |-> "unsubmitted", hostname |-> h, method |-> method, log_dir |-> log_dir,
     attempt |-> 0, connects |-> 0, sleeps |-> 0, yields |-> 0,
     first_ok |-> 0, auth_rejected |-> FALSE, thrown |-> NoExc, thrown_at |-> 0,
     last_exception |-> NoExc, exc |-> NoExc,
     cur |-> 0, live |-> {}, closes |-> 0,
     log_file |-> "None", log |-> <<>>, log_path |-> <<>>, log_opens |-> 0,
     stdout_buffer |-> <<>>, stderr_buffer |-> <<>>, exit_status |-> -1,
     puts |-> 0, execs |-> 0, open_at_interrupt |-> FALSE,
     result |-> NoResult, raised |-> NoExc]

\* text captured from a stream, and a message formatted around an exception
Captured(lines) == [prefix |-> "", host |-> 0, text |-> NoText, lines |-> lines]
Msg(prefix, h, e) == [prefix |-> prefix, host |-> h, text |-> e.text, lines |-> <<>>]
Note(prefix, h) == [prefix |-> prefix, host |-> h, text |-> NoText, lines |-> <<>>]

\* first statement of the with-body of each method
BodyStart(t) ==
    CASE t.method = "execute_command" -> IF t.log_dir THEN "log_open" ELSE "exec_command"
      [] t.method = "transfer_file" -> "put"
      [] t.method = "download_file" -> "get"
      [] t.method = "upload_and_execute" -> "put"

\* ExceptInLoop with the test of the last round off by one: it sleeps and goes
\* round again after the last allowed attempt too
ExceptInLoopOneMore(t, e) ==
    IF t.attempt < CONNECTION_RETRIES
    THEN [t EXCEPT !.last_exception = e, !.pc = "sleep"]
    ELSE [t EXCEPT !.last_exception = e, !.exc = e, !.pc = "close"]

\* the except clause of the retry loop: remember e, then sleep and go round
\* again, or, on the last round, leave the loop and raise last_exception
ExceptInLoop(t, e) ==
    IF t.attempt < CONNECTION_RETRIES - 1
    THEN [t EXCEPT !.last_exception = e, !.pc = "sleep"]
    ELSE [t EXCEPT !.last_exception = e, !.exc = e, !.pc = "close"]

\* the with-body raised e: contextmanager.__exit__ throws e into the generator
\* at its yield, which is inside the try of the retry loop
Throw(t, e) == ExceptInLoop([t EXCEPT !.thrown = e, !.thrown_at = t.attempt], e)

\* BodyDone without the return after the yield: the loop goes on to its next
\* round after a successful operation
BodyDoneNoReturn(t) ==
    IF t.attempt < CONNECTION_RETRIES - 1
    THEN [t EXCEPT !.exc = NoExc, !.attempt = @ + 1, !.pc = "connect"]
    ELSE [t EXCEPT !.exc = NoExc, !.pc = "close"]

\* the with-body ended: __exit__ resumes the generator, which returns through
\* its finally clause
BodyDone(t) == [t EXCEPT !.exc = NoExc, !.pc = "close"]

\* Connect handing the client to the with-body again after a reconnection
ConnectRunsBodyAgain(t) ==
    IF t.pc # "connect" THEN {} ELSE
    LET n == t.connects + 1
        c == [t EXCEPT !.connects = n]
    IN  { [c EXCEPT !.cur = n, !.live = @ \cup {n}, !.yields = @ + 1,
                    !.first_ok = IF t.yields = 0 THEN n ELSE @, !.pc = BodyStart(t)] }
        \cup { ExceptInLoop(c, ConnError(n)),
               ExceptInLoop([c EXCEPT !.auth_rejected = TRUE], AuthError(n)) }

\* client.connect(...) of the current round.  A successful call makes a new
\* connection the client's current one.  The first yield hands the client to
\* the with-body; a yield after an exception was thrown in makes __exit__
\* raise RuntimeError and close the generator.
Connect(t) ==
    IF t.pc # "connect" THEN {} ELSE
    LET n == t.connects + 1
        c == [t EXCEPT !.connects = n]
    IN  { IF t.yields = 0
          THEN [c EXCEPT !.cur = n, !.live = @ \cup {n}, !.yields = 1, !.first_ok = n,
                         !.pc = BodyStart(t)]
          ELSE [c EXCEPT !.cur = n, !.live = @ \cup {n}, !.yields = @ + 1,
                         !.exc = GeneratorDidntStop, !.pc = "close"] }
        \cup { ExceptInLoop(c, ConnError(n)),
               ExceptInLoop([c EXCEPT !.auth_rejected = TRUE], AuthError(n)) }

\* Sleep that goes back to connect in the same round of the loop
SleepSameRound(t) ==
    IF t.pc # "sleep" THEN {} ELSE
    { [t EXCEPT !.sleeps = @ + 1, !.pc = "connect"] }

\* time.sleep(RETRY_DELAY_SECONDS), then the next round of the loop
Sleep(t) ==
    IF t.pc # "sleep" THEN {} ELSE
    { [t EXCEPT !.sleeps = @ + 1, !.attempt = @ + 1, !.pc = "connect"] }

\* finally: client.close() closes the client's current connection
Close(t) ==
    IF t.pc # "close" THEN {} ELSE
    { [t EXCEPT !.closes = @ + 1, !.live = @ \ {t.cur}, !.cur = 0,
                !.pc = IF t.exc = NoExc THEN "return" ELSE "except"] }

\* os.path.join(log_dir, f"{self.hostname}.log"): the directory and the file
\* name made of the hostname and the suffix
LogPath(hostname) == <<"log_dir", <<hostname, ".log">>>>

\* open(log_path, 'w') truncates the host's log file
LogOpen(t) ==
    IF t.pc # "log_open" THEN {} ELSE
    { [t EXCEPT !.log_file = "open", !.log = <<>>, !.log_path = LogPath(t.hostname),
                !.log_opens = @ + 1, !.pc = "log_header"],
      Throw(t, LogError) }

LogHeader(t) ==
    IF t.pc # "log_header" THEN {} ELSE
    { [t EXCEPT !.log = Append(@, "header"), !.pc = "exec_command"],
      Throw(t, LogError) }

\* sftp.put over the session (scp, and part 1 of upload-exec)
Put(t) ==
    IF t.pc # "put" THEN {} ELSE
    { IF t.method = "upload_and_execute"
      THEN [t EXCEPT !.puts = @ + 1, !.pc = "exec_command"]
      ELSE BodyDone([t EXCEPT !.puts = @ + 1]),
      Throw(t, TransferError) }

\* sftp.get over the session (download)
Get(t) ==
    IF t.pc # "get" THEN {} ELSE
    { BodyDone([t EXCEPT !.puts = @ + 1]), Throw(t, TransferError) }

\* client.exec_command starts the command on the host
ExecCommand(t) ==
    IF t.pc # "exec_command" THEN {} ELSE
    { [t EXCEPT !.execs = @ + 1, !.pc = "read"], Throw(t, ExecError) }

\* the two readline loops: all of stdout then all of stderr, or a fault
\* (the command timeout) after part of stdout
ReadStreams(t) ==
    IF t.pc # "read" THEN {} ELSE
    { [t EXCEPT !.stdout_buffer = o, !.stderr_buffer = e, !.pc = "recv_exit_status"]
        : o \in OutLines, e \in ErrLines }
    \cup { Throw([t EXCEPT !.stdout_buffer = o], ReadTimeout) : o \in OutLines }

RecvExitStatus(t) ==
    IF t.pc # "recv_exit_status" THEN {} ELSE
    { BodyDone([t EXCEPT !.exit_status = x]) : x \in ExitStatuses }

\* SuccessResult with the exit code reduced to 0 / 1
SuccessResultFlagOnly(t) ==
    CASE t.method \in {"execute_command", "upload_and_execute"} ->
            [hostname |-> t.hostname, success |-> (t.exit_status = 0),
             exit_code |-> IF t.exit_status = 0 THEN 0 ELSE 1, stdout |-> t.stdout_buffer,
             stderr |-> Captured(t.stderr_buffer)]
      [] t.method = "transfer_file" ->
            [hostname |-> t.hostname, success |-> TRUE,
             message |-> Note("File transferred to", t.hostname)]
      [] t.method = "download_file" ->
            [hostname |-> t.hostname, success |-> TRUE,
             message |-> Note("File downloaded from", t.hostname)]

\* the dict returned after the with statement
SuccessResult(t) ==
    CASE t.method \in {"execute_command", "upload_and_execute"} ->
            [hostname |-> t.hostname, success |-> (t.exit_status = 0),
             exit_code |-> t.exit_status, stdout |-> t.stdout_buffer,
             stderr |-> Captured(t.stderr_buffer)]
      [] t.method = "transfer_file" ->
            [hostname |-> t.hostname, success |-> TRUE,
             message |-> Note("File transferred to", t.hostname)]
      [] t.method = "download_file" ->
            [hostname |-> t.hostname, success |-> TRUE,
             message |-> Note("File downloaded from", t.hostname)]

\* the dict returned by the except clauses of the method
FailureResult(t, e) ==
    CASE t.method = "execute_command" ->
            [hostname |-> t.hostname, success |-> FALSE, exit_code |-> -1,
             stdout |-> <<>>,
             stderr |-> IF e.cls = "AuthenticationException"
                        THEN Msg("FAILURE: Authentication failed on", t.hostname, e)
                        ELSE Msg("FAILURE: Could not connect or execute on", t.hostname, e)]
      [] t.method = "upload_and_execute" ->
            [hostname |-> t.hostname, success |-> FALSE, exit_code |-> -1,
             stdout |-> IF e.cls = "AuthenticationException" THEN <<>> ELSE t.stdout_buffer,
             stderr |-> IF e.cls = "AuthenticationException"
                        THEN Msg("FAILURE: Authentication failed on", t.hostname, e)
                        ELSE Msg("FAILURE: Could not upload or execute on", t.hostname, e)]
      [] t.method = "transfer_file" ->
            [hostname |-> t.hostname, success |-> FALSE,
             message |-> Msg("Could not transfer to", t.hostname, e)]
      [] t.method = "download_file" ->
            [hostname |-> t.hostname, success |-> FALSE,
             message |-> Msg("Could not download from", t.hostname, e)]

\* where a method goes once its return value is built: execute_command has a
\* finally clause, the other methods return
AfterResult(t) == IF t.method = "execute_command" THEN "finally" ELSE "returned"

Return(t) ==
    IF t.pc # "return" THEN {} ELSE
    { [t EXCEPT !.result = SuccessResult(t), !.pc = AfterResult(t)] }

Except(t) ==
    IF t.pc # "except" THEN {} ELSE
    { [t EXCEPT !.result = FailureResult(t, t.exc), !.pc = AfterResult(t)] }

\* Finally writing the lines of stdout only
FinallyStdoutOnly(t) ==
    IF t.pc # "finally" THEN {} ELSE
    IF t.log_file = "None" THEN { [t EXCEPT !.pc = "returned"] } ELSE
    { [t EXCEPT !.log = @ \o t.stdout_buffer, !.pc = "log_close"],
      [t EXCEPT !.result = NoResult, !.raised = LogError, !.pc = "raised"] }

\* finally of execute_command: if log_file: writelines(...); an exception
\* here replaces the pending return
Finally(t) ==
    IF t.pc # "finally" THEN {} ELSE
    IF t.log_file = "None" THEN { [t EXCEPT !.pc = "returned"] } ELSE
    { [t EXCEPT !.log = @ \o t.stdout_buffer \o t.stderr_buffer, !.pc = "log_close"],
      [t EXCEPT !.result = NoResult, !.raised = LogError, !.pc = "raised"] }

LogClose(t) ==
    IF t.pc # "log_close" THEN {} ELSE
    { [t EXCEPT !.log_file = "closed", !.pc = "returned"],
      [t EXCEPT !.result = NoResult, !.raised = LogError, !.pc = "raised"] }

Finished(t) == t.pc \in {"returned", "raised"}
Running(t) == t.pc \notin {"unsubmitted", "queued", "returned", "raised"}

\* ---- the thread pool: one action per step of a task ----
StepTask(i, succ) ==
    /\ \E s \in succ : task' = [task EXCEPT ![i] = s]
    /\ UNCHANGED <<args, hpc, submitted, collected, results, report, counts, status>>
    /\ UNCHANGED others

\* a worker thread takes a queued task; at most MAX_WORKERS tasks run
WorkerStart ==
    \E i \in Tasks :
        /\ task[i].pc = "queued"
        /\ Cardinality({j \in Tasks : Running(task[j])}) < MAX_WORKERS
        /\ StepTask(i, {[task[i] EXCEPT !.pc = "connect"]})

DoConnect == \E i \in Tasks : StepTask(i, Connect(task[i]))
DoSleep == \E i \in Tasks : StepTask(i, Sleep(task[i]))
DoClose == \E i \in Tasks : StepTask(i, Close(task[i]))
DoLogOpen == \E i \in Tasks : StepTask(i, LogOpen(task[i]))
DoLogHeader == \E i \in Tasks : StepTask(i, LogHeader(task[i]))
DoPut == \E i \in Tasks : StepTask(i, Put(task[i]))
DoGet == \E i \in Tasks : StepTask(i, Get(task[i]))
DoExecCommand == \E i \in Tasks : StepTask(i, ExecCommand(task[i]))
DoReadStreams == \E i \in Tasks : StepTask(i, ReadStreams(task[i]))
DoRecvExitStatus == \E i \in Tasks : StepTask(i, RecvExitStatus(task[i]))
DoReturn == \E i \in Tasks : StepTask(i, Return(task[i]))
DoExcept == \E i \in Tasks : StepTask(i, Except(task[i]))
DoFinally == \E i \in Tasks : StepTask(i, Finally(task[i]))
DoLogClose == \E i \in Tasks : StepTask(i, LogClose(task[i]))

\* ---- the handler (handle_exec, handle_scp, handle_download, handle_upload_exec) ----
\* executor.submit(op.<method>, ...) for the next client of args.clients
Submit ==
    /\ hpc = "submit"
    /\ submitted < N
    /\ submitted' = submitted + 1
    /\ task' = [task EXCEPT ![submitted + 1].pc = "queued"]
    /\ hpc' = IF submitted + 1 = N THEN "collect" ELSE "submit"
    /\ UNCHANGED <<args, collected, results, report, counts, status>>
    /\ UNCHANGED others

\* executor.submit raises (no thread can be started): nothing in the handler
\* catches it, it leaves the for loop and the with statement
SubmitRaises ==
    /\ hpc = "submit"
    /\ submitted < N
    /\ hpc' = "submit_raised"
    /\ UNCHANGED <<args, submitted, task, collected, results, report, counts, status>>
    /\ UNCHANGED others

\* SyntheticResult with the record tagged with the first client instead of the
\* client of the future that raised
SyntheticResultFirstClient(client, exc) ==
    IF args.action \in {"exec", "upload-exec"}
    THEN [hostname |-> args.clients[1], success |-> FALSE, exit_code |-> -1, stdout |-> <<>>,
          stderr |-> Msg("EXCEPTION: An error occurred while processing host", client, exc)]
    ELSE [hostname |-> args.clients[1], success |-> FALSE,
          message |-> Msg("EXCEPTION: An error occurred while processing host", client, exc)]

\* the dict the handler builds when future.result() raises
SyntheticResult(client, exc) ==
    IF args.action \in {"exec", "upload-exec"}
    THEN [hostname |-> client, success |-> FALSE, exit_code |-> -1, stdout |-> <<>>,
          stderr |-> Msg("EXCEPTION: An error occurred while processing host", client, exc)]
    ELSE [hostname |-> client, success |-> FALSE,
          message |-> Msg("EXCEPTION: An error occurred while processing host", client, exc)]

\* Collect appending the record of some finished future instead of the record
\* of the future the loop is at
CollectMixed ==
    /\ hpc = "collect"
    /\ \E i \in Tasks \ collected :
        /\ Finished(task[i])
        /\ collected' = collected \cup {i}
        /\ LET j == CHOOSE j \in Tasks : Finished(task[j]) IN
           results' = Append(results,
                IF task[j].pc = "returned" THEN task[j].result
                ELSE SyntheticResult(args.clients[j], task[j].raised))
    /\ hpc' = IF Cardinality(collected) + 1 = N THEN "report" ELSE "collect"
    /\ UNCHANGED <<args, submitted, task, report, counts, status>>
    /\ UNCHANGED others

\* one round of the as_completed loop: a finished future not yet taken
Collect ==
    /\ hpc = "collect"
    /\ \E i \in Tasks \ collected :
        /\ Finished(task[i])
        /\ collected' = collected \cup {i}
        /\ results' = Append(results,
                IF task[i].pc = "returned" THEN task[i].result
                ELSE SyntheticResult(args.clients[i], task[i].raised))
    /\ hpc' = IF Cardinality(collected) + 1 = N THEN "report" ELSE "collect"
    /\ UNCHANGED <<args, submitted, task, report, counts, status>>
    /\ UNCHANGED others

\* sorted(results, key=hostname): a stable insertion sort
RECURSIVE InsertByHostname(_, _)
InsertByHostname(r, sorted) ==
    IF sorted = <<>> THEN <<r>>
    ELSE IF r.hostname < Head(sorted).hostname THEN <<r>> \o sorted
    ELSE <<Head(sorted)>> \o InsertByHostname(r, Tail(sorted))

RECURSIVE SortedByHostname(_)
SortedByHostname(rs) ==
    IF rs = <<>> THEN <<>>
    ELSE InsertByHostname(rs[Len(rs)], SortedByHostname(SubSeq(rs, 1, Len(rs) - 1)))

SuccessCount(rs) == Cardinality({k \in 1..Len(rs) : rs[k].success})

\* FailureCount counting only the results that carry a remote exit code
FailureCountRemoteOnly(rs) ==
    Cardinality({k \in 1..Len(rs) : ~rs[k].success /\ "exit_code" \in DOMAIN rs[k]
                                      /\ rs[k].exit_code # -1})

FailureCount(rs) == Cardinality({k \in 1..Len(rs) : ~rs[k].success})

\* the report (json.dumps of the list, or one block per host in hostname
\* order) and the handler's return value
Report ==
    /\ hpc = "report"
    /\ report' = IF args.json THEN results ELSE SortedByHostname(results)
    /\ counts' = <<SuccessCount(results), FailureCount(results)>>
    /\ hpc' = "summary"
    /\ UNCHANGED <<args, submitted, task, collected, results, status>>
    /\ UNCHANGED others

\* ---- the console report ----
\* what the handlers print per record when --json is not given, as the kinds
\* of the things printed: the "-> Results for" line, the captured stdout and
\* stderr (each only if not empty), a separator, the banner, a separator
Printed(kind, res) == [kind |-> kind, hostname |-> res.hostname]

NonEmptyText(x) == x.prefix # "" \/ x.lines # <<>>

\* the banner lines of handle_exec, of handle_upload_exec (which prints none
\* for exit code -1) and of handle_scp / handle_download
Banners(action, res) ==
    CASE action = "exec" ->
            IF res.success THEN <<Printed("SUCCESS", res)>>
            ELSE IF res.exit_code # -1 THEN <<Printed("FAILURE: exit code", res)>>
            ELSE <<Printed("FAILURE: Could not execute", res)>>
      [] action = "upload-exec" ->
            IF res.success THEN <<Printed("SUCCESS", res)>>
            ELSE IF res.exit_code # -1 THEN <<Printed("FAILURE: exit code", res)>>
            ELSE <<>>
      [] OTHER ->
            IF res.success THEN <<Printed("SUCCESS", res)>> ELSE <<Printed("FAILURE", res)>>

ConsoleBlock(action, res) ==
    IF action \in {"exec", "upload-exec"}
    THEN <<Printed("-> Results for", res)>>
         \o (IF res.stdout # <<>> THEN <<Printed("stdout", res)>> ELSE <<>>)
         \o (IF NonEmptyText(res.stderr) THEN <<Printed("stderr", res)>> ELSE <<>>)
         \o <<Printed("----", res)>> \o Banners(action, res) \o <<Printed("----", res)>>
    ELSE <<Printed("-> Results for", res), Printed("----", res)>>
         \o Banners(action, res) \o <<Printed("----", res)>>

\* the blocks printed for the report, in the order printed
Console ==
    IF args.json THEN <<>>
    ELSE [k \in 1..Len(report) |-> ConsoleBlock(args.action, report[k])]

\* ---- main ----
\* the summary, then sys.exit(1) if failure_count > 0 else sys.exit(0)
MainExit ==
    /\ hpc = "summary"
    /\ status' = IF counts[2] > 0 THEN 1 ELSE 0
    /\ hpc' = "exited"
    /\ UNCHANGED <<args, submitted, task, collected, results, report, counts>>
    /\ UNCHANGED others

\* the exception of executor.submit: the with statement waits for the tasks
\* already submitted, then the exception reaches the handler of __main__,
\* which prints it and calls sys.exit(1)
MainUnexpectedError ==
    /\ hpc = "submit_raised"
    /\ \A i \in 1..submitted : Finished(task[i])
    /\ status' = 1
    /\ hpc' = "exited_on_error"
    /\ UNCHANGED <<args, submitted, task, collected, results, report, counts>>
    /\ UNCHANGED others

\* ---- main before dispatch, and the handlers before their pool ----
\* cli holds what main reads before it dispatches: config_path is args.config
\* (the default CONFIG_FILE or another path), config_file what is at that path
\* (nothing, text that is not JSON, a dict without default_clients, with an
\* empty list, with a list), clients_given whether the command line names
\* clients, local_file whether args.local_file is a file, makedirs_ok whether
\* os.makedirs succeeds, prompt what --prompt-password leads to; config is the
\* dict load_configuration returned.
DEFAULT_CLIENTS == <<>>
ConfigFiles == {"missing", "not_json", "no_default_clients", "empty_default_clients",
                "default_clients"}
ConfiguredClients == <<1>>

NoCli ==
    [config_path |-> "CONFIG_FILE", config_file |-> "missing", clients_given |-> TRUE,
     local_file |-> TRUE, makedirs_ok |-> TRUE, prompt |-> "no", config |-> "none"]

TasksFor(a) ==
    [i \in 1..Len(a.clients) |-> InitTask(a.clients[i], MethodOf(a.action), a.log_dir)]

\* sys.exit(1) before the handler's pool exists
SysExitEarly ==
    /\ status' = 1
    /\ hpc' = "sys_exit"

\* config = load_configuration(args.config)
LoadConfiguration ==
    /\ hpc = "load_configuration"
    /\ IF cli.config_file = "missing"
       THEN IF cli.config_path # "CONFIG_FILE"
            THEN SysExitEarly /\ UNCHANGED cli
            ELSE /\ cli' = [cli EXCEPT !.config = "{}"]
                 /\ hpc' = "clients"
                 /\ UNCHANGED status
       ELSE /\ cli' = [cli EXCEPT !.config =
                        IF cli.config_file = "not_json" THEN "{}" ELSE cli.config_file]
            /\ hpc' = "clients"
            /\ UNCHANGED status
    /\ UNCHANGED <<args, submitted, task, collected, results, report, counts, dl, rc>>

\* config.get("default_clients", DEFAULT_CLIENTS)
EffectiveDefaultClients ==
    CASE cli.config = "default_clients" -> ConfiguredClients
      [] cli.config = "empty_default_clients" -> <<>>
      [] OTHER -> DEFAULT_CLIENTS

\* if not args.clients: the default list, or exit
ResolveClients ==
    /\ hpc = "clients"
    /\ IF args.clients # <<>>
       THEN /\ hpc' = "password"
            /\ UNCHANGED <<args, task, status>>
       ELSE IF EffectiveDefaultClients # <<>>
            THEN /\ args' = [args EXCEPT !.clients = EffectiveDefaultClients]
                 /\ task' = TasksFor(args')
                 /\ hpc' = "password"
                 /\ UNCHANGED status
            ELSE SysExitEarly /\ UNCHANGED <<args, task>>
    /\ UNCHANGED <<submitted, collected, results, report, counts, cli, dl, rc>>

\* the password: getpass may be cancelled
DeterminePassword ==
    /\ hpc = "password"
    /\ IF cli.prompt = "cancelled"
       THEN SysExitEarly
       ELSE hpc' = "dispatch" /\ UNCHANGED status
    /\ UNCHANGED <<args, submitted, task, collected, results, report, counts, cli, dl, rc>>

\* handle_exec before its pool: a log directory that cannot be made is dropped
HandleExecStart ==
    /\ hpc = "dispatch"
    /\ args.action = "exec"
    /\ args' = [args EXCEPT !.log_dir = args.log_dir /\ cli.makedirs_ok]
    /\ task' = TasksFor(args')
    /\ hpc' = "submit"
    /\ UNCHANGED <<submitted, collected, results, report, counts, status, cli, dl, rc>>

\* HandleScpStart without the exit when the local file is missing
HandleScpStartNoExit ==
    /\ hpc = "dispatch"
    /\ args.action = "scp"
    /\ hpc' = "submit"
    /\ UNCHANGED <<args, submitted, task, collected, results, report, counts, status, cli, dl, rc>>

\* handle_scp before its pool: the local file must exist
HandleScpStart ==
    /\ hpc = "dispatch"
    /\ args.action = "scp"
    /\ IF cli.local_file
       THEN hpc' = "submit" /\ UNCHANGED status
       ELSE SysExitEarly
    /\ UNCHANGED <<args, submitted, task, collected, results, report, counts, cli, dl, rc>>

\* handle_download before its pool: the local directory must be there
HandleDownloadStart ==
    /\ hpc = "dispatch"
    /\ args.action = "download"
    /\ IF cli.makedirs_ok
       THEN hpc' = "submit" /\ UNCHANGED status
       ELSE SysExitEarly
    /\ UNCHANGED <<args, submitted, task, collected, results, report, counts, cli, dl, rc>>

\* handle_upload_exec before its pool: the local script must exist
HandleUploadExecStart ==
    /\ hpc = "dispatch"
    /\ args.action = "upload-exec"
    /\ IF cli.local_file
       THEN hpc' = "submit" /\ UNCHANGED status
       ELSE SysExitEarly
    /\ UNCHANGED <<args, submitted, task, collected, results, report, counts, cli, dl, rc>>

\* ---- download_file: the local file of each host ----
\* Strings are sequences of characters.  A hostname that download_file
\* computes a path for is one a connection was made to, so it holds no "/".
MaxNameLen == 2
MaxPathLen == 3
HostnameChars == {"a", "_"}
PathChars == {"a", "/", "_"}
Hostnames == SeqsOf(HostnameChars, 1, MaxNameLen)
RemotePaths == SeqsOf(PathChars, 1, MaxPathLen)
LocalDirs == SeqsOf({"d", "/"}, 1, 2)

\* os.path.basename(p): what follows the last "/" of p
Basename(p) ==
    LET slashes == {k \in 1..Len(p) : p[k] = "/"}
        last == IF slashes = {} THEN 0 ELSE CHOOSE k \in slashes : \A j \in slashes : j <= k
    IN  SubSeq(p, last + 1, Len(p))

\* os.path.join(a, b)
Join(a, b) ==
    IF b # <<>> /\ b[1] = "/" THEN b
    ELSE IF a = <<>> \/ a[Len(a)] = "/" THEN a \o b
    ELSE a \o <<"/">> \o b

\* LocalFilename without the hostname in front
LocalFilenameBasenameOnly(hostname, remote_path) == Basename(remote_path)

\* f"{self.hostname}_{os.path.basename(remote_path)}"
LocalFilename(hostname, remote_path) == hostname \o <<"_">> \o Basename(remote_path)

LocalFilePath(hostname, remote_path, local_dir) ==
    Join(local_dir, LocalFilename(hostname, remote_path))

NoDownload ==
    [hostnames |-> <<>>, remote_path |-> <<>>, local_dir |-> <<>>,
     local_file_path |-> <<>>, done |-> {}, files |-> {}]

\* download_file on host i, once connected: the path, then sftp.get, which
\* writes the local file or fails
DownloadFile ==
    /\ \E i \in (DOMAIN dl.hostnames) \ dl.done :
        LET path == LocalFilePath(dl.hostnames[i], dl.remote_path, dl.local_dir) IN
        \E got \in BOOLEAN :
            dl' = [dl EXCEPT !.local_file_path[i] = path,
                             !.done = @ \cup {i},
                             !.files = IF got THEN @ \cup {path} ELSE @]
    /\ UNCHANGED <<args, hpc, submitted, task, collected, results, report, counts,
                   status, cli, rc>>

\* ---- RemoteClient (remote_client.py) ----
\* rc.client is the SSHClient the object holds (0 for None, else the number of
\* the SSHClient created); connected the SSHClients with a live transport;
\* close_calls how often close() was called on each SSHClient; history the
\* methods called so far, ret / raised what the last call returned or raised;
\* proxy the proxy_client given to the last connect_via_proxy; log the content
\* of the file <log_dir>/<hostname>.log of this client; before the
\* client, the open_channel calls and the connect calls when the last call
\* began.
MaxCalls == 4
ProxyStates == {"None", "no_transport", "inactive", "active"}
UnboundLocalError == [cls |-> "UnboundLocalError", text |-> <<"stdout_str", 0>>]

NoClient ==
    [hostname |-> TRUE, log_dir |-> FALSE, client |-> 0, handles |-> 0,
     connected |-> {}, close_calls |-> <<>>, history |-> <<>>,
     ret |-> "None", raised |-> NoExc, proxy |-> "None", log |-> <<>>,
     open_channel_calls |-> 0, connect_calls |-> 0,
     before |-> [client |-> 0, open_channel_calls |-> 0, connect_calls |-> 0]]

\* a method call begins
Called(r, method) ==
    [r EXCEPT !.history = Append(@, method), !.ret = "None", !.raised = NoExc,
              !.before = [client |-> r.client,
                          open_channel_calls |-> r.open_channel_calls,
                          connect_calls |-> r.connect_calls]]

\* self.client = paramiko.SSHClient()
NewHandle(r) ==
    [r EXCEPT !.handles = @ + 1, !.client = r.handles + 1,
              !.close_calls = Append(@, 0)]

\* connect(): the states it can end in
ConnectOutcomes(r) ==
    IF ~r.hostname THEN { [r EXCEPT !.ret = "False"] } ELSE
    LET c == [NewHandle(r) EXCEPT !.connect_calls = @ + 1] IN
    { [c EXCEPT !.connected = @ \cup {c.client}, !.ret = "True"],
      [c EXCEPT !.client = 0, !.ret = "False"] }

\* one more call can be made on the object
CanCall == Len(rc.history) < MaxCalls

RcConnect ==
    /\ CanCall
    /\ rc' \in ConnectOutcomes(Called(rc, "connect"))
    /\ UNCHANGED <<args, hpc, submitted, task, collected, results, report, counts,
                   status, cli, dl>>

\* connect_via_proxy without the test of the proxy client: the try block
\* runs whatever the proxy is
RcConnectViaProxyNoCheck ==
    /\ CanCall
    /\ \E p \in ProxyStates :
           LET r == [Called(rc, "connect_via_proxy") EXCEPT !.proxy = p] IN
           rc' \in (
               IF ~r.hostname THEN { [r EXCEPT !.ret = "False"] } ELSE
               IF p \in {"None", "no_transport"} THEN { [r EXCEPT !.ret = "False"] } ELSE
               LET o == [r EXCEPT !.open_channel_calls = @ + 1]
                   c == [NewHandle(o) EXCEPT !.connect_calls = @ + 1]
               IN  { [o EXCEPT !.ret = "False"] }
                   \cup (IF p = "active"
                         THEN { [c EXCEPT !.connected = @ \cup {c.client}, !.ret = "True"],
                                [c EXCEPT !.ret = "False"] }
                         ELSE {}))
    /\ UNCHANGED <<args, hpc, submitted, task, collected, results, report, counts,
                   status, cli, dl>>

\* connect_via_proxy(proxy_client): the hostname and the proxy are tested
\* first; then open_channel, a new SSHClient, connect over the channel.  An
\* exception of the try block returns False and leaves self.client as it is.
RcConnectViaProxy ==
    /\ CanCall
    /\ \E p \in ProxyStates :
           LET r == [Called(rc, "connect_via_proxy") EXCEPT !.proxy = p] IN
           rc' \in (
               IF ~r.hostname THEN { [r EXCEPT !.ret = "False"] } ELSE
               IF p # "active" THEN { [r EXCEPT !.ret = "False"] } ELSE
               LET o == [r EXCEPT !.open_channel_calls = @ + 1]
                   c == [NewHandle(o) EXCEPT !.connect_calls = @ + 1]
               IN  { [o EXCEPT !.ret = "False"],
                     [c EXCEPT !.connected = @ \cup {c.client}, !.ret = "True"],
                     [c EXCEPT !.ret = "False"] })
    /\ UNCHANGED <<args, hpc, submitted, task, collected, results, report, counts,
                   status, cli, dl>>

\* get_client(): connects if no client is held, returns self.client
RcGetClient ==
    /\ CanCall
    /\ LET r == Called(rc, "get_client") IN
       rc' \in ({ [s EXCEPT !.ret = IF s.client = 0 THEN "None" ELSE "client"]
                   : s \in (IF r.client = 0 THEN ConnectOutcomes(r) ELSE {r}) })
    /\ UNCHANGED <<args, hpc, submitted, task, collected, results, report, counts,
                   status, cli, dl>>

\* the states a method that needs a client starts its work in, and the
\* states in which it returns because connect() failed
WithClient(r) == IF r.client # 0 THEN {r} ELSE {s \in ConnectOutcomes(r) : s.client # 0}
WithoutClient(r) == IF r.client # 0 THEN {} ELSE {s \in ConnectOutcomes(r) : s.client = 0}

\* what run_command writes first to its log file, opened with mode 'a': the
\* command header and the timestamp line
LogHeaderLines == <<"rc_header", "rc_timestamp">>

\* the client after run_command wrote w to its log file; without a log
\* directory nothing is written
Logged(r, w) == IF r.log_dir THEN [r EXCEPT !.log = @ \o w] ELSE r

\* run_command: returns ("", -1) when connect() fails; an exception before
\* stdout_str is assigned (the log file, exec_command, recv_exit_status, the
\* read of stdout) is caught and the final return raises UnboundLocalError;
\* an exception after it returns (stdout_str, -1); with a log directory a
\* write in the except clause or the close in the finally clause can raise; a
\* command needs a live transport to run.  With a log directory the call
\* appends to the log file: the header lines, then the output and the
\* "Command Finished" line (and the exit code line for a status other than
\* 0), or the error message; nothing if the file could not be opened.
RcRunCommand ==
    /\ CanCall
    /\ LET r == Called(rc, "run_command") IN
       rc' \in (
           { [s EXCEPT !.ret = "empty, -1"] : s \in WithoutClient(r) }
           \cup { Logged([s EXCEPT !.raised = UnboundLocalError], w) :
                    s \in WithClient(r), w \in {<<>>, LogHeaderLines \o <<"rc_error">>} }
           \cup { Logged([s EXCEPT !.raised = LogError], w) :
                    s \in {x \in WithClient(r) : x.log_dir},
                    w \in {<<"rc_header">>, LogHeaderLines \o <<"rc_output", "rc_finished">>} }
           \cup { Logged([s EXCEPT !.ret = "stdout, status"], w) :
                    s \in {x \in WithClient(r) : x.client \in x.connected},
                    w \in {LogHeaderLines \o <<"rc_output", "rc_finished">>,
                           LogHeaderLines \o <<"rc_output", "rc_finished", "rc_failed">>} }
           \cup { Logged([s EXCEPT !.ret = "stdout, -1"], LogHeaderLines \o <<"rc_error">>) :
                    s \in {x \in WithClient(r) : x.client \in x.connected} })
    /\ UNCHANGED <<args, hpc, submitted, task, collected, results, report, counts,
                   status, cli, dl>>

\* upload_file: False when connect() fails or SFTP raises, else True
RcUploadFile ==
    /\ CanCall
    /\ LET r == Called(rc, "upload_file") IN
       rc' \in (
           { [s EXCEPT !.ret = "False"] : s \in WithoutClient(r) \cup WithClient(r) }
           \cup { [s EXCEPT !.ret = "True"] :
                    s \in {w \in WithClient(r) : w.client \in w.connected} })
    /\ UNCHANGED <<args, hpc, submitted, task, collected, results, report, counts,
                   status, cli, dl>>

\* close() that keeps self.client after closing it
RcCloseKeepsClient ==
    /\ CanCall
    /\ LET r == Called(rc, "close") IN
       rc' \in ({ IF r.client = 0 THEN r
                ELSE [r EXCEPT !.close_calls[r.client] = @ + 1,
                               !.connected = @ \ {r.client}] })
    /\ UNCHANGED <<args, hpc, submitted, task, collected, results, report, counts,
                   status, cli, dl>>

\* close(): if self.client: self.client.close(); self.client = None
RcClose ==
    /\ CanCall
    /\ LET r == Called(rc, "close") IN
       rc' \in ({ IF r.client = 0 THEN r
                ELSE [r EXCEPT !.close_calls[r.client] = @ + 1,
                               !.connected = @ \ {r.client},
                               !.client = 0] })
    /\ UNCHANGED <<args, hpc, submitted, task, collected, results, report, counts,
                   status, cli, dl>>

\* the state of what a run of a handler over its clients does not touch
OthersIdle == cli = NoCli /\ dl = NoDownload /\ rc = NoClient

ArgsSet(maxTargets) ==
    [action : Actions, json : BOOLEAN, log_dir : BOOLEAN,
     clients : SeqsOf(Hosts, 1, maxTargets)]

InitWith(a) ==
    /\ args = a
    /\ hpc = "submit"
    /\ submitted = 0
    /\ task = [i \in 1..Len(a.clients) |->
                    InitTask(a.clients[i], MethodOf(a.action), a.log_dir)]
    /\ collected = {}
    /\ results = <<>>
    /\ report = <<>>
    /\ counts = <<0, 0>>
    /\ status = -1

\* --log-dir exists for exec only
Init ==
    \E a \in ArgsSet(MaxTargets) :
        /\ a.log_dir => a.action = "exec"
        /\ InitWith(a)
        /\ OthersIdle

\* every step a running task can take
Succ(t) ==
    Connect(t) \cup Sleep(t) \cup Close(t) \cup LogOpen(t) \cup LogHeader(t)
    \cup Put(t) \cup Get(t) \cup ExecCommand(t) \cup ReadStreams(t)
    \cup RecvExitStatus(t) \cup Return(t) \cup Except(t) \cup Finally(t)
    \cup LogClose(t)

\* every way a method call can end
RECURSIVE Finals(_)
Finals(t) == IF Finished(t) THEN {t} ELSE UNION {Finals(s) : s \in Succ(t)}

\* what a finished call leaves to the handler: its return value or its
\* exception
Outcome(f) ==
    [InitTask(f.hostname, f.method, f.log_dir) EXCEPT !.pc = f.pc, !.result = f.result, !.raised = f.raised]

Methods == {MethodOf(a) : a \in Actions}

\* the outcomes of each method call, by method, log_dir argument and host
Outcomes ==
    [m \in Methods, ld \in BOOLEAN, h \in Hosts |->
        {Outcome(f) : f \in Finals([InitTask(h, m, ld) EXCEPT !.pc = "connect"])}]

\* a worker thread runs a queued task from its first statement to its end
RunOperation ==
    \E i \in Tasks :
        /\ task[i].pc = "queued"
        /\ Cardinality({j \in Tasks : Running(task[j])}) < MAX_WORKERS
        /\ StepTask(i, Outcomes[task[i].method, task[i].log_dir, task[i].hostname])

\* the run of a handler over its clients, each task run as one step
Next ==
    \/ Submit
    \/ SubmitRaises
    \/ RunOperation
    \/ Collect
    \/ Report
    \/ MainExit
    \/ MainUnexpectedError

\* the same with every task taken statement by statement
NextOp ==
    \/ Submit
    \/ SubmitRaises
    \/ WorkerStart
    \/ DoConnect
    \/ DoSleep
    \/ DoClose
    \/ DoLogOpen
    \/ DoLogHeader
    \/ DoPut
    \/ DoGet
    \/ DoExecCommand
    \/ DoReadStreams
    \/ DoRecvExitStatus
    \/ DoReturn
    \/ DoExcept
    \/ DoFinally
    \/ DoLogClose
    \/ Collect
    \/ Report
    \/ MainExit
    \/ MainUnexpectedError

Spec == Init /\ [][Next]_vars

\* one Remote Operation on its own: a run over a single client
InitOp ==
    \E a \in ArgsSet(1) :
        /\ a.log_dir => a.action = "exec"
        /\ InitWith(a)
        /\ OthersIdle

SpecOp == InitOp /\ [][NextOp]_vars

\* a thread that can take a step takes it
SpecOpFair == SpecOp /\ WF_vars(NextOp)

\* ---- the operator interrupts the run ----
\* KeyboardInterrupt is raised in the main thread, which is in the submit loop
\* or in the as_completed loop of a handler while tasks are in flight; the
\* worker threads are not interrupted
KeyboardInterruptInMain ==
    /\ hpc \in {"submit", "collect"}
    /\ \E i \in Tasks : Running(task[i])
    /\ hpc' = "interrupted"
    /\ task' = [i \in Tasks |-> [task[i] EXCEPT !.open_at_interrupt = (task[i].cur # 0)]]
    /\ UNCHANGED <<args, submitted, collected, results, report, counts, status>>
    /\ UNCHANGED others

\* the exception leaves the with statement of the executor, whose __exit__
\* waits for every task submitted (shutdown(wait=True)); then the handler of
\* __main__ prints and calls sys.exit(1)
MainInterrupted ==
    /\ hpc = "interrupted"
    /\ \A i \in 1..submitted : Finished(task[i])
    /\ status' = 1
    /\ hpc' = "exited_on_interrupt"
    /\ UNCHANGED <<args, submitted, task, collected, results, report, counts>>
    /\ UNCHANGED others

NextInterrupt ==
    \/ NextOp
    \/ KeyboardInterruptInMain
    \/ MainInterrupted

SpecInterrupt == InitOp /\ [][NextInterrupt]_vars

\* ---- the worker pool with more targets than workers ----
\* what a finished call leaves behind for the pool: that it is over, and
\* whether a session it opened is still open
SessionsLeft(f) ==
    [InitTask(f.hostname, f.method, f.log_dir) EXCEPT
        !.pc = f.pc,
        !.live = IF f.live = {} THEN {} ELSE {1}]

SessionOutcomes ==
    [m \in Methods, ld \in BOOLEAN, h \in Hosts |->
        {SessionsLeft(f) : f \in Finals([InitTask(h, m, ld) EXCEPT !.pc = "connect"])}]

\* a worker thread takes the task at the head of the work queue (the queue of
\* the executor is first in, first out); at most MAX_WORKERS tasks run
WorkerStartNext ==
    \E i \in Tasks :
        /\ task[i].pc = "queued"
        /\ \A j \in 1..(i - 1) : task[j].pc # "queued"
        /\ Cardinality({j \in Tasks : Running(task[j])}) < MAX_WORKERS
        /\ StepTask(i, {[task[i] EXCEPT !.pc = "connect"]})

\* a task a worker thread has started runs to its end
RunToEnd ==
    \E i \in Tasks :
        /\ task[i].pc = "connect"
        /\ StepTask(i, SessionOutcomes[task[i].method, task[i].log_dir, task[i].hostname])

\* handle_scp over MAX_WORKERS + 1 clients
InitPool ==
    /\ InitWith([action |-> "scp", json |-> FALSE, log_dir |-> FALSE,
              clients |-> [i \in 1..(MAX_WORKERS + 1) |-> 1]])
    /\ OthersIdle

NextPool ==
    \/ Submit
    \/ SubmitRaises
    \/ WorkerStartNext
    \/ RunToEnd

SpecPool == InitPool /\ [][NextPool]_vars


\* ---- main from the parsed command line to its exit, over at most one client ----
InitMain ==
    \E a \in [action : Actions, json : BOOLEAN, log_dir : BOOLEAN,
              clients : SeqsOf(Hosts, 0, 1)],
       c \in [config_path : {"CONFIG_FILE", "other"}, config_file : ConfigFiles,
              clients_given : BOOLEAN, local_file : BOOLEAN, makedirs_ok : BOOLEAN,
              prompt : {"no", "entered", "cancelled"}, config : {"none"}] :
        /\ a.log_dir => a.action = "exec"
        /\ c.clients_given = (a.clients # <<>>)
        /\ args = a
        /\ cli = c
        /\ hpc = "load_configuration"
        /\ submitted = 0
        /\ task = TasksFor(a)
        /\ collected = {}
        /\ results = <<>>
        /\ report = <<>>
        /\ counts = <<0, 0>>
        /\ status = -1
        /\ dl = NoDownload
        /\ rc = NoClient

NextMain ==
    \/ LoadConfiguration
    \/ ResolveClients
    \/ DeterminePassword
    \/ HandleExecStart
    \/ HandleScpStart
    \/ HandleDownloadStart
    \/ HandleUploadExecStart
    \/ Submit
    \/ SubmitRaises
    \/ RunOperation
    \/ Collect
    \/ Report
    \/ MainExit
    \/ MainUnexpectedError

SpecMain == InitMain /\ [][NextMain]_vars

\* main is one sequential thread and the tasks of the pool run on their own
\* threads: a step that can be taken is taken
SpecMainFair == SpecMain /\ WF_vars(NextMain)

\* ---- download of one remote path from two hosts into one directory ----
IdleArgs == [action |-> "download", json |-> FALSE, log_dir |-> FALSE, clients |-> <<1>>]

InitDownload ==
    /\ InitWith(IdleArgs)
    /\ cli = NoCli
    /\ rc = NoClient
    /\ \E h1 \in Hostnames, h2 \in Hostnames, p \in RemotePaths, d \in LocalDirs :
        dl = [hostnames |-> <<h1, h2>>, remote_path |-> p, local_dir |-> d,
              local_file_path |-> <<<<>>, <<>>>>, done |-> {}, files |-> {}]

NextDownload == DownloadFile

SpecDownload == InitDownload /\ [][NextDownload]_vars

\* ---- calls on one RemoteClient object ----
InitClient ==
    /\ InitWith(IdleArgs)
    /\ cli = NoCli
    /\ dl = NoDownload
    /\ \E h \in BOOLEAN, ld \in BOOLEAN :
        rc = [NoClient EXCEPT !.hostname = h, !.log_dir = ld]

NextClient ==
    \/ RcConnect
    \/ RcConnectViaProxy
    \/ RcGetClient
    \/ RcRunCommand
    \/ RcUploadFile
    \/ RcClose

SpecClient == InitClient /\ [][NextClient]_vars

\* ---- one log file written by both tools ----
\* what a call of RemoteOperation.execute_command with a log directory leaves
\* in the log file it opened
LogOutcomes ==
    {f.log : f \in {g \in Finals([InitTask(1, "execute_command", TRUE) EXCEPT !.pc = "connect"]) :
                        g.log_opens > 0}}

\* exec --log-dir of the multi-host tool on the host and the log directory of
\* the RemoteClient: both name the file os.path.join(log_dir,
\* f"{hostname}.log"); open(log_path, 'w') truncates it, so it then holds
\* what this call wrote (a call that does not get to open it leaves it)
ExecuteCommandLogged ==
    /\ \E w \in LogOutcomes \cup {rc.log} : rc' = [rc EXCEPT !.log = w]
    /\ UNCHANGED <<args, hpc, submitted, task, collected, results, report, counts,
                   status, cli, dl>>

InitLog ==
    /\ InitWith(IdleArgs)
    /\ cli = NoCli
    /\ dl = NoDownload
    /\ rc = [NoClient EXCEPT !.log_dir = TRUE]

NextLog ==
    \/ NextClient
    \/ ExecuteCommandLogged

SpecLog == InitLog /\ [][NextLog]_vars

\* ---- properties ----
\* the error text of a result record: stderr of a command result, message of
\* a transfer result
ErrorField(r) == IF "message" \in DOMAIN r THEN r.message ELSE r.stderr

\* the handler left its as_completed loop / returned to main
LoopDone == hpc \in {"report", "summary", "exited"}
HandlerReturned == hpc \in {"summary", "exited"}

\* C1: when a handler has collected its futures and returns, its results list
\* holds exactly N records for N clients, and every client has as many records
\* carrying its hostname as it has tasks, whatever each task did (success,
\* non-zero exit, no connection, exception out of the task).
C1_OneResultPerTarget ==
    LoopDone =>
        /\ Len(results) = N
        /\ \A h \in Hosts :
              Cardinality({k \in 1..Len(results) : results[k].hostname = h})
                = Cardinality({i \in Tasks : args.clients[i] = h})

\* two different hosts, the second finished first with a failure, the first
\* with a success, and one of the two raised out of its task
C1_Witness ==
    /\ hpc = "summary"
    /\ N = 2
    /\ args.clients[1] # args.clients[2]
    /\ results[1].hostname = args.clients[2]
    /\ ~results[1].success
    /\ results[2].success
    /\ \E i \in Tasks : task[i].pc = "raised"

CommandMethods == {"execute_command", "upload_and_execute"}
TransferMethods == {"transfer_file", "download_file"}
\* the task has left the retry loop of _get_connection
PastLoop(t) == t.pc \notin {"unsubmitted", "queued", "connect", "sleep"}

C3_SuccessOnKthAttempt ==
    \A i \in Tasks :
        LET t == task[i] IN
        t.exit_status = 0 =>
            /\ t.first_ok \in 1..CONNECTION_RETRIES
            /\ t.connects = t.first_ok
            /\ t.sleeps = t.first_ok - 1
            /\ t.result # NoResult => t.result.success

C3_Witness ==
    \E i \in Tasks :
        /\ task[i].pc = "returned"
        /\ task[i].exit_status = 0
        /\ task[i].first_ok = 3
        /\ task[i].sleeps = 2
        /\ task[i].result.success

\* C4 (as claimed): in upload-and-execute, when the upload succeeded and the
\* execution step threw on an attempt that is not the last, and the connection
\* of the next attempt succeeds, the script is uploaded again.
C4_UploadExecuteRetriedAsUnit ==
    \A i \in Tasks :
        LET t == task[i] IN
        (/\ t.method = "upload_and_execute"
         /\ Finished(t)
         /\ t.thrown \in {ExecError, ReadTimeout}
         /\ t.thrown_at < CONNECTION_RETRIES - 1
         /\ t.yields >= 2)
        => t.puts >= 2

\* C5 (as claimed): when sftp.put / sftp.get fails, the record returned by
\* transfer_file / download_file is a failure whose message carries the text
\* of that I/O error, whichever attempt it happened on.
C5_TransferErrorReported ==
    \A i \in Tasks :
        LET t == task[i] IN
        (/\ t.method \in TransferMethods
         /\ t.thrown = TransferError
         /\ t.pc = "returned")
        => /\ ~t.result.success
           /\ t.result.message.text = TransferError.text

\* C6 (as claimed): when an operation ends, close was called exactly once on
\* its client and no connection it established is still open.
C6_SessionClosedOnce ==
    \A i \in Tasks :
        Finished(task[i]) => task[i].closes = 1 /\ task[i].live = {}

\* C7 (as claimed): no Remote Operation method call ends by raising to its
\* caller.
C7_NeverRaises ==
    \A i \in Tasks : task[i].pc # "raised"

\* C8 (as claimed): whatever scheduling failure happens, at submission or at
\* retrieval, the run is not aborted: when the process ends every client was
\* dispatched and has a record in the report.
C8_SchedulingFailureBecomesResult ==
    status # -1 =>
        /\ submitted = N
        /\ Len(report) = N
        /\ \A i \in Tasks : \E k \in 1..Len(report) : report[k].hostname = args.clients[i]

\* C9: when the remote command of execute / upload-and-execute has completed,
\* the result returned has success = true exactly if the remote exit status is
\* 0, and its exit_code is the remote exit status.
C9_SuccessIffExitZero ==
    \A i \in Tasks :
        LET t == task[i] IN
        (t.method \in CommandMethods /\ t.exit_status # -1 /\ t.result # NoResult) =>
            /\ t.result.success <=> (t.exit_status = 0)
            /\ t.result.exit_code = t.exit_status

C9_Witness ==
    \E i \in Tasks :
        /\ task[i].pc = "returned"
        /\ task[i].exit_status = 2
        /\ ~task[i].result.success
        /\ task[i].result.exit_code = 2

\* C10: when the handler has returned, its two counts add up to the number of
\* clients; the process then exits with status 0 if failure_count is 0 and
\* with status 1 otherwise, that is with 0 exactly if every client's task
\* returned a success record; with and without --json.
C10_CountsAndExitStatus ==
    /\ HandlerReturned =>
          /\ counts[1] + counts[2] = N
          /\ counts[2] = Cardinality({i \in Tasks : ~(task[i].pc = "returned" /\ task[i].result.success)})
    /\ hpc = "exited" =>
          /\ status \in {0, 1}
          /\ status = 0 <=> counts[2] = 0
          /\ status = 0 <=> \A i \in Tasks : task[i].pc = "returned" /\ task[i].result.success

C10_Witness ==
    /\ hpc = "exited"
    /\ args.json
    /\ N = 2
    /\ counts = <<1, 1>>
    /\ status = 1

\* C11 (as claimed): with --json the report lists the records sorted by
\* hostname, as the console report does, whatever order the tasks complete in.
C11_JsonSortedByHostname ==
    (HandlerReturned /\ args.json) =>
        /\ report = SortedByHostname(results)
        /\ \A k \in 1..(Len(report) - 1) : report[k].hostname <= report[k + 1].hostname

\* the record the handler owes to the future of client i, from that task alone
OwedBy(i, r) ==
    IF task[i].pc = "returned"
    THEN r = task[i].result /\ r.hostname = args.clients[i]
    ELSE /\ r.hostname = args.clients[i]
         /\ ~r.success
         /\ "exit_code" \in DOMAIN r => r.exit_code = -1
         /\ ErrorField(r).prefix = "EXCEPTION: An error occurred while processing host"
         /\ ErrorField(r).host = args.clients[i]
         /\ ErrorField(r).text = task[i].raised.text

\* C12: isolation between hosts, as the two facts that make the record of a
\* host the same in two runs that differ only in another host's behaviour:
\* (1) the records in the results list are exactly the records owed to the
\* futures taken so far, each built from the state of its own task and tagged
\* with its own client; (2) a step changes the state of one task only, and
\* never that of a finished task.
C12_Isolation ==
    /\ [](\A i \in collected :
            /\ Finished(task[i])
            /\ \E k \in 1..Len(results) : OwedBy(i, results[k])
            /\ \A k \in 1..Len(results) :
                  Cardinality({x \in 1..Len(results) : results[x] = results[k]})
                    = Cardinality({j \in collected : OwedBy(j, results[k])}))
    /\ [][\A i \in Tasks :
            task'[i] # task[i] =>
                /\ ~Finished(task[i])
                /\ \A j \in Tasks \ {i} : task'[j] = task[j]]_vars

\* two hosts: the task of the first raised, and the record of the second, taken
\* first, is the success record of its own task
C12_Witness ==
    /\ hpc = "report"
    /\ N = 2
    /\ args.clients = <<1, 2>>
    /\ task[1].pc = "raised"
    /\ task[2].pc = "returned"
    /\ results[1] = task[2].result
    /\ results[1].success
    /\ results[2].hostname = 1

\* the Remote Operations with an open session: a session they opened is
\* connected and has not been closed
HoldingOpenSession == {i \in Tasks : task[i].live # {}}

\* C13 (as claimed): at every moment at most MAX_WORKERS Remote Operations
\* hold an open session.
C13_OpenSessionsCapped == Cardinality(HoldingOpenSession) <= MAX_WORKERS

\* what the pool does keep: at most MAX_WORKERS tasks run at a time
C13_RunningCapped == Cardinality({i \in Tasks : Running(task[i])}) <= MAX_WORKERS

\* C14 (as claimed): a fault of the log file never changes the result of
\* execute_command.  With no log destination a call that got the exit status
\* of the command returns a record with that exit code, success iff it is 0,
\* and only a fault of the session or of the command ends the with-body early;
\* the claim is that the same holds with a log destination.
C14_LogFaultNeverChangesResult ==
    \A i \in Tasks :
        (task[i].method = "execute_command" /\ Finished(task[i])) =>
            /\ task[i].thrown # LogError
            /\ task[i].exit_status # -1 =>
                  /\ task[i].pc = "returned"
                  /\ task[i].result.exit_code = task[i].exit_status
                  /\ task[i].result.success = (task[i].exit_status = 0)

\* C15 (as claimed): with a log destination, once execute_command has the
\* complete output of the command (both streams read, exit status received)
\* and the session has been closed, the log file holds its header and the
\* complete captured output.
C15_LogWrittenBeforeClose ==
    \A i \in Tasks :
        ( /\ task[i].method = "execute_command"
          /\ task[i].log_file # "None"
          /\ task[i].exit_status # -1
          /\ task[i].closes >= 1 ) =>
            task[i].log = <<"header">> \o task[i].stdout_buffer \o task[i].stderr_buffer

\* C16 (as claimed): an execute or upload-and-execute call that never got a
\* session and had a connection attempt rejected with an authentication
\* failure returns the "Authentication failed" message, whatever its other
\* connection attempts failed with.
C16_AuthFailureIdentified ==
    \A i \in Tasks :
        ( /\ task[i].method \in CommandMethods
          /\ Finished(task[i])
          /\ task[i].yields = 0
          /\ task[i].auth_rejected ) =>
            /\ task[i].pc = "returned"
            /\ ErrorField(task[i].result).prefix = "FAILURE: Authentication failed on"

\* b is the last component of the path p: it holds no "/" and p is b, or
\* something ending in "/" followed by b
IsBasenameOf(b, p) ==
    /\ \A k \in 1..Len(b) : b[k] # "/"
    /\ \E k \in 0..Len(p) :
        /\ b = SubSeq(p, k + 1, Len(p))
        /\ k = 0 \/ p[k] = "/"

\* path names the file called name in the directory d
InDirectory(path, d, name) ==
    \/ path = d \o <<"/">> \o name
    \/ d # <<>> /\ d[Len(d)] = "/" /\ path = d \o name

\* C17: the local path of a download from host h of remote path p is
\* <local_dir>/<h>_<basename(p)>, and two hosts with different hostnames that
\* download the same remote path into the same directory get different local
\* paths.
C17_DownloadPathPerHost ==
    /\ \A i \in dl.done :
        \E k \in 0..Len(dl.remote_path) :
            LET b == SubSeq(dl.remote_path, k + 1, Len(dl.remote_path)) IN
            /\ IsBasenameOf(b, dl.remote_path)
            /\ InDirectory(dl.local_file_path[i], dl.local_dir,
                           dl.hostnames[i] \o <<"_">> \o b)
    /\ \A i, j \in dl.done :
        dl.hostnames[i] # dl.hostnames[j] => dl.local_file_path[i] # dl.local_file_path[j]
    /\ \A f \in dl.files : \E i \in dl.done : f = dl.local_file_path[i]

\* two hosts, the name of one a prefix of the name of the other, downloaded a
\* path with a directory part into one directory: two files
C17_Witness ==
    /\ dl.done = {1, 2}
    /\ dl.hostnames = << <<"a">>, <<"a", "_">> >>
    /\ dl.remote_path = <<"_", "/", "a">>
    /\ dl.local_dir = <<"d", "/">>
    /\ dl.local_file_path[1] = <<"d", "/", "a", "_", "a">>
    /\ dl.local_file_path[2] = <<"d", "/", "a", "_", "_", "a">>
    /\ Cardinality(dl.files) = 2

\* the usage and configuration errors, as the command line and the files give
\* them: a configuration file named by a path other than CONFIG_FILE is
\* missing; no client is given and the configuration has no default list; the
\* local file of scp or upload-exec is missing
ConfigFileMissing == cli.config_path # "CONFIG_FILE" /\ cli.config_file = "missing"
NoTargets == ~cli.clients_given /\ cli.config_file # "default_clients"
LocalFileMissing == args.action \in {"scp", "upload-exec"} /\ ~cli.local_file
UsageError == ConfigFileMissing \/ NoTargets \/ LocalFileMissing

LastCall(r) == IF r.history = <<>> THEN "none" ELSE r.history[Len(r.history)]

\* C19: close is idempotent.  After any calls, close leaves no client held
\* and does not raise; no SSHClient is closed more than once; and a close
\* that follows a close changes nothing.
C19_CloseIdempotent ==
    /\ [](/\ \A h \in 1..rc.handles : rc.close_calls[h] <= 1
          /\ LastCall(rc) = "close" => (rc.client = 0 /\ rc.raised = NoExc))
    /\ [][(/\ LastCall(rc) = "close"
           /\ LastCall(rc') = "close"
           /\ Len(rc'.history) = Len(rc.history) + 1) =>
              /\ rc'.client = rc.client
              /\ rc'.handles = rc.handles
              /\ rc'.connected = rc.connected
              /\ rc'.close_calls = rc.close_calls
              /\ rc'.raised = NoExc]_vars

\* connect, a command, then close twice: the one SSHClient was closed once
C19_Witness ==
    /\ rc.history = <<"connect", "run_command", "close", "close">>
    /\ rc.handles = 1
    /\ rc.close_calls = <<1>>
    /\ rc.connected = {}
    /\ rc.client = 0

\* C20: connect_via_proxy with a proxy client that is absent, has no
\* transport or an inactive one returns False, and has called neither
\* open_channel nor connect, nor changed self.client.
C20_ProxyInactiveFailsAtOnce ==
    (LastCall(rc) = "connect_via_proxy" /\ rc.proxy # "active") =>
        /\ rc.ret = "False"
        /\ rc.raised = NoExc
        /\ rc.open_channel_calls = rc.before.open_channel_calls
        /\ rc.connect_calls = rc.before.connect_calls
        /\ rc.client = rc.before.client

\* a RemoteClient that holds a connected client is given a proxy whose
\* transport is not active
C20_Witness ==
    /\ rc.history = <<"connect", "connect_via_proxy">>
    /\ rc.hostname
    /\ rc.proxy = "inactive"
    /\ rc.client = 1
    /\ rc.client \in rc.connected
    /\ rc.ret = "False"

\* no operation on the log file failed in the call
NoLogFault(t) == t.thrown # LogError /\ t.raised # LogError

\* C23: with a log directory and the connection established, a call of
\* execute_command in which no file operation fails opens one log file, at
\* <log_dir>/<hostname>.log, and the file then holds the command header, the
\* captured stdout lines and the captured stderr lines, once each and in this
\* order, whatever the command's exit status and also when the command or
\* the reading of its output fails.
C23_LogHeaderThenOutputOnce ==
    \A i \in Tasks :
        ( /\ task[i].method = "execute_command"
          /\ task[i].log_dir
          /\ task[i].first_ok > 0
          /\ NoLogFault(task[i]) ) =>
            /\ task[i].log_opens <= 1
            /\ task[i].log_file # "None" =>
                  /\ task[i].log_opens = 1
                  /\ task[i].log_path = <<"log_dir", <<args.clients[i], ".log">>>>
                  /\ task[i].log # <<>> => task[i].log[1] = "header"
            /\ Finished(task[i]) =>
                  /\ task[i].log_file = "closed"
                  /\ task[i].log = <<"header">> \o task[i].stdout_buffer \o task[i].stderr_buffer

\* a command that wrote to both streams and exited with status 1
C23_Witness ==
    \E i \in Tasks :
        /\ task[i].method = "execute_command"
        /\ task[i].pc = "returned"
        /\ task[i].exit_status = 1
        /\ ~task[i].result.success
        /\ task[i].log_path = <<"log_dir", <<1, ".log">>>>
        /\ task[i].log = <<"header", "out", "err">>

\* C25: every Remote Operation ends after at most CONNECTION_RETRIES
\* connection attempts and at most CONNECTION_RETRIES - 1 retry delays, with a
\* result record, whatever the connection attempts and the command or
\* transfer over the session do.
C25_TerminatesWithinRetries ==
    /\ [](\A i \in Tasks :
            /\ task[i].connects <= CONNECTION_RETRIES
            /\ task[i].sleeps <= CONNECTION_RETRIES - 1
            /\ (Finished(task[i]) /\ NoLogFault(task[i])) =>
                  /\ task[i].pc = "returned"
                  /\ task[i].result # NoResult
                  /\ task[i].result.hostname = args.clients[i])
    /\ (\E i \in Tasks : task[i].pc = "queued") ~> (\A i \in Tasks : Finished(task[i]))

\* the transfer failed over the first session and the two connection
\* attempts after it failed as well
C25_Witness ==
    \E i \in Tasks :
        /\ task[i].method = "transfer_file"
        /\ task[i].pc = "returned"
        /\ task[i].first_ok = 1
        /\ task[i].thrown = TransferError
        /\ task[i].connects = CONNECTION_RETRIES
        /\ task[i].sleeps = CONNECTION_RETRIES - 1
        /\ ~task[i].result.success

\* C26 (as claimed): in execute_command, transfer_file and download_file no
\* connection attempt and no retry delay follows the first connection attempt
\* that succeeded.
C26_NoRetryAfterConnected ==
    \A i \in Tasks :
        ( /\ task[i].method \in {"execute_command", "transfer_file", "download_file"}
          /\ task[i].first_ok > 0 ) =>
            /\ task[i].connects = task[i].first_ok
            /\ task[i].sleeps = task[i].first_ok - 1

\* C27: one call of execute_command starts the remote command at most once.
C27_CommandStartedAtMostOnce ==
    \A i \in Tasks : task[i].method = "execute_command" => task[i].execs <= 1

\* the command was started, reading its output failed, and the retry loop
\* connected again
C27_Witness ==
    \E i \in Tasks :
        /\ task[i].method = "execute_command"
        /\ Finished(task[i])
        /\ task[i].execs = 1
        /\ task[i].thrown = ReadTimeout
        /\ task[i].connects >= 2
        /\ task[i].yields = 2

\* C28 (as claimed): run_command never raises; it returns a pair, and the
\* pair is ("", -1) when the connection cannot be established.
C28_RunCommandNeverRaises ==
    LastCall(rc) = "run_command" =>
        /\ rc.raised = NoExc
        /\ rc.ret \in {"empty, -1", "stdout, status", "stdout, -1"}

\* C29 (as claimed): after connect or connect_via_proxy has returned False
\* the RemoteClient holds no client.
C29_NoClientAfterFailedConnect ==
    (LastCall(rc) \in {"connect", "connect_via_proxy"} /\ rc.ret = "False") =>
        rc.client = 0

IsBanner(x) == x.kind \in {"SUCCESS", "FAILURE: exit code", "FAILURE: Could not execute", "FAILURE"}

\* C21 (as claimed): the console report of exec and upload-exec has one block
\* per record, in hostname order, and in every block the captured stdout comes
\* before the captured stderr, which comes before the one banner of the block.
C21_OneBlockOneBanner ==
    (HandlerReturned /\ ~args.json /\ args.action \in {"exec", "upload-exec"}) =>
        /\ Len(Console) = Len(results)
        /\ \A k \in 1..(Len(Console) - 1) :
              Console[k][1].hostname <= Console[k + 1][1].hostname
        /\ \A k \in 1..Len(Console) :
            LET b == Console[k] IN
            /\ Cardinality({x \in 1..Len(b) : IsBanner(b[x])}) = 1
            /\ \A x, y \in 1..Len(b) :
                  x < y => /\ ~(IsBanner(b[x]) /\ b[y].kind \in {"stdout", "stderr"})
                           /\ ~(b[x].kind = "stderr" /\ b[y].kind = "stdout")

\* C24 (as claimed): when the process exits after an interrupt, every task
\* that had a session at the moment of the interrupt has run to its end and
\* every session it opened has been closed.
C24_InterruptedTasksCloseSessions ==
    hpc = "exited_on_interrupt" =>
        \A i \in Tasks :
            task[i].open_at_interrupt => (Finished(task[i]) /\ task[i].live = {})

\* what the interrupt path does keep: the process exits only after every
\* submitted task has run to its end, through the finally clause of
\* _get_connection if it connected
C24_TasksRunToTheirEnd ==
    hpc = "exited_on_interrupt" =>
        \A i \in 1..submitted :
            /\ Finished(task[i])
            /\ task[i].cur = 0
            /\ task[i].first_ok > 0 => task[i].closes >= 1

\* u is an initial part of w
IsPrefix(u, w) == Len(u) <= Len(w) /\ SubSeq(w, 1, Len(u)) = u

\* C22 (as claimed): the log file of a host is append-only: every logged
\* execution, by execute_command of the multi-host tool or by
\* RemoteClient.run_command, leaves what the file held before it in place and
\* writes after it.
C22_LogAppendOnly == [][IsPrefix(rc.log, rc'.log)]_vars

\* run_command alone only appends to the file
C22_RunCommandAppends ==
    [][(LastCall(rc') = "run_command" /\ Len(rc'.history) = Len(rc.history) + 1)
            => IsPrefix(rc.log, rc'.log)]_vars
====
